---------------------------- MODULE Spec2Model ----------------------------
(* magick-server: the process lifecycle of runMain and the per-request      *)
(* pipeline of convertHandler (src/main.go).  Strings are sequences of      *)
(* one-character strings so that ToUpper, ParseFloat, ParseUint and         *)
(* Sprintf("%04d.%s") are computed character by character.                  *)
EXTENDS Integers, Sequences, FiniteSets, TLC

(***************************************************************************)
(* Bounds of the model                                                     *)
(***************************************************************************)
MaxPages == 2

NumWorkers == 2

Workers == 1..NumWorkers

(***************************************************************************)
(* Optional values                                                         *)
(***************************************************************************)
None == <<>>

Some(x) == <<x>>

(***************************************************************************)
(* Strings                                                                 *)
(***************************************************************************)
LowerChars == <<"a","b","c","d","e","f","g","h","i","j","k","l","m",
                "n","o","p","q","r","s","t","u","v","w","x","y","z">>

UpperChars == <<"A","B","C","D","E","F","G","H","I","J","K","L","M",
                "N","O","P","Q","R","S","T","U","V","W","X","Y","Z">>

DigitChars == <<"0","1","2","3","4","5","6","7","8","9">>

IsDigit(c) == \E i \in 1..Len(DigitChars) : DigitChars[i] = c

DigitVal(c) == (CHOOSE i \in 1..Len(DigitChars) : DigitChars[i] = c) - 1

UpperChar(c) ==
    IF \E i \in 1..Len(LowerChars) : LowerChars[i] = c
    THEN UpperChars[CHOOSE i \in 1..Len(LowerChars) : LowerChars[i] = c]
    ELSE c

\* Mutant: the value is compared as it was sent.
ToUpperNot(s) == s

\* strings.ToUpper
ToUpper(s) == [i \in 1..Len(s) |-> UpperChar(s[i])]

RECURSIVE Itoa(_)
Itoa(n) ==
    IF n < 10 THEN <<DigitChars[n + 1]>>
    ELSE Itoa(n \div 10) \o <<DigitChars[(n % 10) + 1]>>

RECURSIVE PadZero(_, _)
PadZero(s, width) ==
    IF Len(s) >= width THEN s ELSE PadZero(<<"0">> \o s, width)

\* Mutant: the entries are numbered from 1.
SprintfEntryNameFromOne(page, ext) == PadZero(Itoa(page + 1), 4) \o <<".">> \o ext

\* fmt.Sprintf("%04d.%s", page, ext)
SprintfEntryName(page, ext) == PadZero(Itoa(page), 4) \o <<".">> \o ext

RECURSIVE DigitsValue(_)
DigitsValue(s) ==
    IF Len(s) = 0 THEN 0
    ELSE 10 * DigitsValue(SubSeq(s, 1, Len(s) - 1)) + DigitVal(s[Len(s)])

AllDigits(s) == \A i \in 1..Len(s) : IsDigit(s[i])

\* strconv.ParseUint(v, 10, 64): decimal digits only, no sign.  The inputs of
\* the model have at most three digits, far below 2^64.
ParseUint(s) ==
    IF Len(s) > 0 /\ AllDigits(s)
    THEN [ok |-> TRUE, val |-> DigitsValue(s)]
    ELSE [ok |-> FALSE, val |-> 0]

RECURSIVE StripTrailingZeros(_)
StripTrailingZeros(s) ==
    IF Len(s) > 0 /\ s[Len(s)] = "0"
    THEN StripTrailingZeros(SubSeq(s, 1, Len(s) - 1))
    ELSE s

\* A float64 value: "nan", or sign * mant * 10^(-dec) with no trailing zero
\* in the fraction.
FloatNum(neg, mant, dec) ==
    [kind |-> "num", neg |-> neg /\ mant # 0, mant |-> mant, dec |-> dec]

FloatNaN == [kind |-> "nan", neg |-> FALSE, mant |-> 0, dec |-> 0]

FloatInf(neg) == [kind |-> "inf", neg |-> neg, mant |-> 0, dec |-> 0]

DotAt(s) ==
    IF \E i \in 1..Len(s) : s[i] = "."
    THEN CHOOSE i \in 1..Len(s) : s[i] = "." /\ \A j \in 1..(i - 1) : s[j] # "."
    ELSE Len(s) + 1

ParseDecimal(neg, s) ==
    LET d     == DotAt(s)
        ip    == SubSeq(s, 1, d - 1)
        fp    == StripTrailingZeros(SubSeq(s, d + 1, Len(s)))
        rawfp == SubSeq(s, d + 1, Len(s))
    IN  IF AllDigits(ip) /\ AllDigits(rawfp) /\ Len(ip) + Len(rawfp) > 0
        THEN [ok |-> TRUE, val |-> FloatNum(neg, DigitsValue(ip \o fp), Len(fp))]
        ELSE [ok |-> FALSE, val |-> FloatNum(FALSE, 0, 0)]

\* strconv.ParseFloat(v, 64) on the decimal grammar [+-]?digits[.digits], on
\* "nan" and on [+-]?"inf"/"infinity" in any case; the inputs of the model use
\* no exponent and no hex.
ParseFloat(s) ==
    LET signed == Len(s) > 0 /\ s[1] \in {"+", "-"}
        neg    == Len(s) > 0 /\ s[1] = "-"
        body   == IF signed THEN SubSeq(s, 2, Len(s)) ELSE s
    IN  IF ToUpper(body) = <<"N","A","N">> /\ ~signed
        THEN [ok |-> TRUE, val |-> FloatNaN]
        ELSE IF ToUpper(body) \in {<<"I","N","F">>, <<"I","N","F","I","N","I","T","Y">>}
        THEN [ok |-> TRUE, val |-> FloatInf(neg)]
        ELSE ParseDecimal(neg, body)

(***************************************************************************)
(* Package-level declarations                                              *)
(***************************************************************************)
JPEG == <<"J","P","E","G">>

PNG == <<"P","N","G">>

TIFF == <<"T","I","F","F">>

formatExtensionMap ==
    (JPEG :> <<"j","p","g">>) @@ (PNG :> <<"p","n","g">>)
        @@ (TIFF :> <<"t","i","f","f">>)

layoutTypeLandscape == <<"L","A","N","D","S","C","A","P","E">>

layoutTypePortrait == <<"P","O","R","T","R","A","I","T">>

layoutTypeKeep == <<"K","E","E","P">>

\* Mutant: the default density is the screen resolution.
defaultDensityScreen == FloatNum(FALSE, 72, 0)

defaultDensity == FloatNum(FALSE, 300, 0)

defaultQuality == 85


(***************************************************************************)
(* Requests the clients send                                               *)
(***************************************************************************)
\* Page dimensions <<width, height>>: tall, wide and square.
Dims == {<<1, 2>>, <<2, 1>>, <<2, 2>>}

RECURSIVE SeqsOfLen(_, _)
SeqsOfLen(S, n) ==
    IF n = 0 THEN {<<>>}
    ELSE {Append(t, x) : t \in SeqsOfLen(S, n - 1), x \in S}

\* The decoded form of a request body: the pages the engine finds in it.
Docs == UNION {SeqsOfLen(Dims, n) : n \in 1..MaxPages}

DensityInputs ==
    {<<>>, <<"7","2">>, <<"1",".","5","0">>, <<"-","1">>, <<"n","a","n">>,
     <<"x">>, <<"1",".","2",".","3">>}

QualityInputs ==
    {<<>>, <<"9","0">>, <<"0">>, <<"-","1">>, <<"+","5">>, <<"1",".","5">>}

FormatInputs ==
    {<<>>, <<"j","p","e","g">>, <<"P","N","G">>, <<"T","i","f","f">>,
     <<"b","o","g","u","s">>, <<"j","p","g">>, <<"p","n","g"," ">>}

LayoutInputs ==
    {<<>>, <<"l","a","n","d","s","c","a","p","e">>,
     <<"P","O","R","T","R","A","I","T">>, <<"K","e","e","p">>,
     <<"w","i","d","e">>, <<"k","e","e","p","s">>}

Query(d, q, f, l) == [density |-> d, quality |-> q, format |-> f, layout |-> l]

Keys == {"density", "quality", "format", "layout"}

\* The keys a query string must hold: those with a non-empty value.
NonEmptyKeys(q) == {k \in Keys : q[k] # <<>>}

\* A request whose URL holds exactly the keys that have a value.
Request(q, doc) == [query |-> q, present |-> NonEmptyKeys(q), doc |-> doc]

\* Queries in which each key is absent, valid or invalid, in every combination.
MixedQueries ==
    {Query(d, q, f, l) :
        d \in {<<>>, <<"1",".","5","0">>, <<"x">>},
        q \in {<<>>, <<"9","0">>, <<"-","1">>},
        f \in {<<>>, <<"P","N","G">>, <<"b","o","g","u","s">>},
        l \in {<<>>, <<"l","a","n","d","s","c","a","p","e">>, <<"w","i","d","e">>}}

\* Queries with a single key, over all the inputs of that key.
SingleKeyQueries ==
    {Query(d, <<>>, <<>>, <<>>) : d \in DensityInputs}
        \cup {Query(<<>>, q, <<>>, <<>>) : q \in QualityInputs}
        \cup {Query(<<>>, <<>>, f, <<>>) : f \in FormatInputs}
        \cup {Query(<<>>, <<>>, <<>>, l) : l \in LayoutInputs}

\* Requests that vary the query over a fixed one-page body.
ParamRequests ==
    {Request(q, <<<<2, 1>>>>) : q \in MixedQueries \cup SingleKeyQueries}

\* Requests whose URL also holds keys with an empty value (?format=&...).
EmptyValueRequests ==
    UNION {{[query |-> q, present |-> NonEmptyKeys(q) \cup E, doc |-> <<<<2, 1>>>>] :
               E \in SUBSET (Keys \ NonEmptyKeys(q)) \ {{}}} :
           q \in {Query(<<>>, <<>>, <<>>, <<>>),
                  Query(<<"7","2">>, <<>>, <<"P","N","G">>, <<>>)}}

\* Requests that vary the body and the layout.
PipelineRequests ==
    {Request(Query(<<>>, <<>>, <<"T","i","f","f">>, l), doc) :
        l \in {<<>>, <<"l","a","n","d","s","c","a","p","e">>,
               <<"P","O","R","T","R","A","I","T">>},
        doc \in Docs}

\* Requests that are served concurrently: one that runs the whole pipeline
\* and one that is rejected by the last parameter check.
ConcRequests ==
    {Request(Query(<<"7","2">>, <<"9","0">>, <<"P","N","G">>,
                   <<"P","O","R","T","R","A","I","T">>), <<<<2, 1>>>>),
     Request(Query(<<>>, <<>>, <<"T","i","f","f">>, <<"w","i","d","e">>),
             <<<<1, 2>>>>)}

Requests ==
    ParamRequests \cup EmptyValueRequests \cup PipelineRequests \cup ConcRequests

(***************************************************************************)
(* State                                                                   *)
(***************************************************************************)
VARIABLES
    mainpc,     \* position of runMain
    listener,   \* the goroutine running srv.ListenAndServe
    imagick,    \* the engine's process-wide runtime
    exit,       \* the process: "running", or how it ended
    frame       \* frame[w]: the locals of convertHandler in worker w

vars == <<mainpc, listener, imagick, exit, frame>>

\* The locals of convertHandler before a request arrives.
IdleFrame ==
    [pc         |-> "idle",
     query      |-> Query(<<>>, <<>>, <<>>, <<>>),
     present    |-> {},
     doc        |-> <<>>,
     density    |-> None,
     quality    |-> None,
     format     |-> None,
     layout     |-> None,
     in         |-> None,
     mw         |-> "nil",
     resolution |-> None,
     images     |-> <<>>,
     iter       |-> 0,
     page       |-> 0,
     mwi        |-> None,
     mwm        |-> None,
     live       |-> <<>>,
     defers     |-> <<>>,
     out        |-> None,
     zip        |-> [open |-> FALSE, entries |-> <<>>, closes |-> 0],
     resp       |-> <<>>,
     fault      |-> "none",
     calls      |-> <<>>]

Init ==
    /\ mainpc = "start"
    /\ listener = "off"
    /\ imagick = [state |-> "uninit", inits |-> 0, terms |-> 0]
    /\ exit = "running"
    /\ frame = [w \in Workers |-> IdleFrame]


(***************************************************************************)
(* runMain                                                                 *)
(***************************************************************************)
Idle(w) == frame[w].pc = "idle"

\* imagick.Initialize(); defer imagick.Terminate()
Initialize ==
    /\ exit = "running"
    /\ mainpc = "start"
    /\ imagick' = [imagick EXCEPT !.state = "init", !.inits = @ + 1]
    /\ mainpc' = "routing"
    /\ UNCHANGED <<listener, exit, frame>>

\* go func() { srv.ListenAndServe() ... }()
StartServer ==
    /\ exit = "running"
    /\ mainpc = "routing"
    /\ listener' = "starting"
    /\ mainpc' = "waiting"
    /\ UNCHANGED <<imagick, exit, frame>>

\* srv.ListenAndServe binds the address and serves.
ListenOK ==
    /\ exit = "running"
    /\ listener = "starting"
    /\ mainpc # "shutdown"
    /\ listener' = "listening"
    /\ UNCHANGED <<mainpc, imagick, exit, frame>>

\* srv.ListenAndServe fails: os.Exit(1), which runs no deferred call.
ListenFail ==
    /\ exit = "running"
    /\ listener = "starting"
    /\ mainpc # "shutdown"
    /\ listener' = "failed"
    /\ exit' = "exit1"
    /\ UNCHANGED <<mainpc, imagick, frame>>

\* srv.ListenAndServe returns http.ErrServerClosed after srv.Shutdown.
ListenClosed ==
    /\ exit = "running"
    /\ listener = "starting"
    /\ mainpc = "shutdown"
    /\ listener' = "closed"
    /\ UNCHANGED <<mainpc, imagick, exit, frame>>

\* <-done receives a signal; srv.Shutdown(ctx) closes the listener.
Signal ==
    /\ exit = "running"
    /\ mainpc = "waiting"
    /\ mainpc' = "shutdown"
    /\ listener' = IF listener = "listening" THEN "closed" ELSE listener
    /\ UNCHANGED <<imagick, exit, frame>>

\* Mutant: the server is closed without waiting for the running handlers.
ShutdownDoneNoWait ==
    /\ exit = "running"
    /\ mainpc = "shutdown"
    /\ mainpc' = "returned"
    /\ imagick' = [imagick EXCEPT !.state = "terminated", !.terms = @ + 1]
    /\ exit' = "exit0"
    /\ UNCHANGED <<listener, frame>>

\* srv.Shutdown returns nil once no handler runs; runMain returns, its
\* deferred calls run (cancel, imagick.Terminate) and the process ends.
ShutdownDone ==
    /\ exit = "running"
    /\ mainpc = "shutdown"
    /\ \A w \in Workers : Idle(w)
    /\ mainpc' = "returned"
    /\ imagick' = [imagick EXCEPT !.state = "terminated", !.terms = @ + 1]
    /\ exit' = "exit0"
    /\ UNCHANGED <<listener, frame>>

\* The 10 s of the context pass with a handler still running: os.Exit(1).
ShutdownTimeout ==
    /\ exit = "running"
    /\ mainpc = "shutdown"
    /\ \E w \in Workers : ~Idle(w)
    /\ mainpc' = "exited"
    /\ exit' = "exit1"
    /\ UNCHANGED <<listener, imagick, frame>>

(***************************************************************************)
(* convertHandler                                                          *)
(***************************************************************************)
At(w, pc) == exit = "running" /\ frame[w].pc = pc

\* Mutant: the page counter is a package-level variable.
StoreSharedPage(w, fr) ==
    /\ frame' = [o \in Workers |->
                    IF o = w THEN fr ELSE [frame[o] EXCEPT !.page = fr.page]]
    /\ UNCHANGED <<mainpc, listener, imagick, exit>>

Store(w, fr) == frame' = [frame EXCEPT ![w] = fr] /\ UNCHANGED <<mainpc, listener, imagick, exit>>

Goto(fr, pc) == [fr EXCEPT !.pc = pc]

\* An engine or archive call, as seen from outside the handler.
Call(fr, op) == [fr EXCEPT !.calls = Append(@, [op |-> op, page |-> fr.page])]

\* render.Status(r, status); render.JSON(w, r, {"error": msg}); return
ReplyError(fr, status, msg) ==
    [fr EXCEPT !.resp = Append(@, [status |-> status, kind |-> "json",
                                   error |-> msg, entries |-> <<>>]),
               !.pc = "return"]

\* Mutant: the failure of a call is reported as a bad request.
FailedAsBadRequest(fr, op, msg) == ReplyError([fr EXCEPT !.fault = op], 400, msg)

\* Mutant: the error response carries what the archive buffer holds so far.
FailedWithPartialArchive(fr, op, msg) ==
    [fr EXCEPT !.fault = op,
               !.resp = Append(@, [status |-> 500, kind |-> "json", error |-> msg,
                                   entries |-> fr.zip.entries]),
               !.pc = "return"]

\* The same after an engine, archive or body-read call failed.
Failed(fr, op, msg) == ReplyError([fr EXCEPT !.fault = op], 500, msg)

\* The load the model offers: any request alone, or requests of ConcRequests
\* side by side.
Admissible(w, r) ==
    \/ \A o \in Workers \ {w} : Idle(o)
    \/ /\ r \in ConcRequests
       /\ \A o \in Workers \ {w} :
            Idle(o) \/ [query |-> frame[o].query, present |-> frame[o].present,
                        doc |-> frame[o].doc] \in ConcRequests

\* The router hands a POST /convert to the handler in a goroutine of its own.
Accept(w) ==
    /\ At(w, "idle")
    /\ listener = "listening"
    /\ \E r \in Requests :
         /\ Admissible(w, r)
         /\ Store(w, [IdleFrame EXCEPT !.pc = "parseDensity",
                                       !.query = r.query, !.present = r.present,
                                       !.doc = r.doc])

\* r.URL.Query().Get(key): the value of the key, "" when the key is absent.
Get(fr, key) == IF key \in fr.present THEN fr.query[key] ELSE <<>>

ParseDensity(w) ==
    /\ At(w, "parseDensity")
    /\ LET fr == frame[w]
           v  == Get(fr, "density")
           d  == ParseFloat(v)
       IN  \/ /\ v = <<>>
              /\ Store(w, Goto([fr EXCEPT !.density = Some(defaultDensity)], "parseQuality"))
           \/ /\ v # <<>> /\ ~d.ok
              /\ Store(w, ReplyError(fr, 400, "invalid density"))
           \/ /\ v # <<>> /\ d.ok
              /\ Store(w, Goto([fr EXCEPT !.density = Some(d.val)], "parseQuality"))

\* Mutant: the quality is parsed whenever the URL holds the key.
ParseQualityIfPresent(w) ==
    /\ At(w, "parseQuality")
    /\ LET fr == frame[w]
           v  == Get(fr, "quality")
           q  == ParseUint(v)
       IN  \/ /\ "quality" \notin fr.present
              /\ Store(w, Goto([fr EXCEPT !.quality = Some(defaultQuality)], "parseFormat"))
           \/ /\ "quality" \in fr.present /\ ~q.ok
              /\ Store(w, ReplyError(fr, 400, "invalid compression quality"))
           \/ /\ "quality" \in fr.present /\ q.ok
              /\ Store(w, Goto([fr EXCEPT !.quality = Some(q.val)], "parseFormat"))

ParseQuality(w) ==
    /\ At(w, "parseQuality")
    /\ LET fr == frame[w]
           v  == Get(fr, "quality")
           q  == ParseUint(v)
       IN  \/ /\ v = <<>>
              /\ Store(w, Goto([fr EXCEPT !.quality = Some(defaultQuality)], "parseFormat"))
           \/ /\ v # <<>> /\ ~q.ok
              /\ Store(w, ReplyError(fr, 400, "invalid compression quality"))
           \/ /\ v # <<>> /\ q.ok
              /\ Store(w, Goto([fr EXCEPT !.quality = Some(q.val)], "parseFormat"))

\* Mutant: the rejection of the format lacks its return.
ParseFormatNoReturn(w) ==
    /\ At(w, "parseFormat")
    /\ LET fr == frame[w]
           g  == Get(fr, "format")
           v  == ToUpper(g)
       IN  \/ /\ g = <<>>
              /\ Store(w, Goto([fr EXCEPT !.format = Some(JPEG)], "parseLayout"))
           \/ /\ g # <<>> /\ v \notin DOMAIN formatExtensionMap
              /\ Store(w, Goto([ReplyError(fr, 400, "invalid output format")
                                  EXCEPT !.format = Some(JPEG)], "parseLayout"))
           \/ /\ g # <<>> /\ v \in DOMAIN formatExtensionMap
              /\ Store(w, Goto([fr EXCEPT !.format = Some(v)], "parseLayout"))

ParseFormat(w) ==
    /\ At(w, "parseFormat")
    /\ LET fr == frame[w]
           g  == Get(fr, "format")
           v  == ToUpper(g)
       IN  \/ /\ g = <<>>
              /\ Store(w, Goto([fr EXCEPT !.format = Some(JPEG)], "parseLayout"))
           \/ /\ g # <<>> /\ v \notin DOMAIN formatExtensionMap
              /\ Store(w, ReplyError(fr, 400, "invalid output format"))
           \/ /\ g # <<>> /\ v \in DOMAIN formatExtensionMap
              /\ Store(w, Goto([fr EXCEPT !.format = Some(v)], "parseLayout"))

ParseLayout(w) ==
    /\ At(w, "parseLayout")
    /\ LET fr == frame[w]
           g  == Get(fr, "layout")
           v  == ToUpper(g)
           ok == ~(v # layoutTypeLandscape /\ v # layoutTypePortrait /\ v # layoutTypeKeep)
       IN  \/ /\ g = <<>>
              /\ Store(w, Goto([fr EXCEPT !.layout = Some(layoutTypeKeep)], "readBody"))
           \/ /\ g # <<>> /\ ~ok
              /\ Store(w, ReplyError(fr, 400, "invalid output layout"))
           \/ /\ g # <<>> /\ ok
              /\ Store(w, Goto([fr EXCEPT !.layout = Some(v)], "readBody"))

\* in, err := io.ReadAll(r.Body)
ReadBody(w) ==
    /\ At(w, "readBody")
    /\ LET fr == frame[w]
       IN  \/ Store(w, Goto([fr EXCEPT !.in = Some(fr.doc)], "newWand"))
           \/ Store(w, Failed(fr, "ReadAll", "failed to read request body"))

\* Mutant: the wand is created without its deferred Destroy.
NewMagickWandNoDefer(w) ==
    /\ At(w, "newWand")
    /\ LET fr == Call(frame[w], "NewMagickWand")
       IN  Store(w, Goto([fr EXCEPT !.mw = "live"], "setResolution"))

\* mw := imagick.NewMagickWand(); defer mw.Destroy()
NewMagickWand(w) ==
    /\ At(w, "newWand")
    /\ LET fr == Call(frame[w], "NewMagickWand")
       IN  Store(w, Goto([fr EXCEPT !.mw = "live",
                                    !.defers = Append(@, [kind |-> "mw", page |-> 0])],
                         "setResolution"))

\* err = mw.SetResolution(density, density)
SetResolution(w) ==
    /\ At(w, "setResolution")
    /\ LET fr == Call(frame[w], "SetResolution")
       IN  \/ Store(w, Goto([fr EXCEPT !.resolution = fr.density], "readImage"))
           \/ Store(w, Failed(fr, "SetResolution", "failed to set density"))

\* err = mw.ReadImageBlob(in)
ReadImageBlob(w) ==
    /\ At(w, "readImage")
    /\ LET fr == Call(frame[w], "ReadImageBlob")
       IN  \/ Store(w, Goto([fr EXCEPT !.images = fr.in[1]], "zipSetup"))
           \/ Store(w, Failed(fr, "ReadImageBlob", "failed to read image"))

\* buf, zipWriter := ...; mw.ResetIterator(); page := 0
ZipSetup(w) ==
    /\ At(w, "zipSetup")
    /\ LET fr == frame[w]
       IN  Store(w, Goto([fr EXCEPT !.zip = [open |-> TRUE, entries |-> <<>>, closes |-> 0],
                                    !.iter = 0, !.page = 0],
                         "nextImage"))

\* The loop condition mw.NextImage()
NextImage(w) ==
    /\ At(w, "nextImage")
    /\ LET fr == frame[w]
       IN  IF fr.iter < Len(fr.images)
           THEN Store(w, Goto([fr EXCEPT !.iter = @ + 1], "getImage"))
           ELSE Store(w, Goto(fr, "zipClose"))


\* A sub-handle acquired for the current page, with its deferred Destroy.
Acquire(fr, kind) ==
    [fr EXCEPT !.live = Append(@, [kind |-> kind, page |-> fr.page]),
               !.defers = Append(@, [kind |-> kind, page |-> fr.page])]

\* mwi := mw.GetImage(); defer mwi.Destroy()
GetImage(w) ==
    /\ At(w, "getImage")
    /\ LET fr == Call(frame[w], "GetImage")
           im == fr.images[fr.iter]
       IN  Store(w, Goto([Acquire(fr, "mwi") EXCEPT
                             !.mwi = Some([width |-> im[1], height |-> im[2],
                                           quality |-> None, format |-> None])],
                         "merge"))

\* mwm := mwi.MergeImageLayers(imagick.IMAGE_LAYER_FLATTEN); defer mwm.Destroy()
MergeImageLayers(w) ==
    /\ At(w, "merge")
    /\ LET fr == Call(frame[w], "MergeImageLayers")
       IN  Store(w, Goto([Acquire(fr, "mwm") EXCEPT !.mwm = fr.mwi], "setQuality"))

\* err = mwm.SetImageCompressionQuality(quality)
SetImageCompressionQuality(w) ==
    /\ At(w, "setQuality")
    /\ LET fr == Call(frame[w], "SetImageCompressionQuality")
       IN  \/ Store(w, Goto([fr EXCEPT !.mwm[1].quality = fr.quality], "setFormat"))
           \/ Store(w, Failed(fr, "SetImageCompressionQuality",
                              "failed to set compression quality"))

\* err = mwm.SetImageFormat(format)
SetImageFormat(w) ==
    /\ At(w, "setFormat")
    /\ LET fr == Call(frame[w], "SetImageFormat")
       IN  \/ Store(w, Goto([fr EXCEPT !.mwm[1].format = fr.format], "layout"))
           \/ Store(w, Failed(fr, "SetImageFormat", "failed to set output format"))

\* Mutant: the comparisons of the layout switch are not strict.
NeedsRotateOrSquare(layout, width, height) ==
    \/ layout = layoutTypeLandscape /\ width <= height
    \/ layout = layoutTypePortrait /\ height <= width

\* The conditions of the layout switch under which RotateImage is called.
NeedsRotate(layout, width, height) ==
    \/ layout = layoutTypeLandscape /\ width < height
    \/ layout = layoutTypePortrait /\ height < width

\* Mutant: a half turn, which keeps the width and the height.
RotatedHalfTurn(img) == img

\* mwm.RotateImage(imagick.NewPixelWand(), -90.0): a quarter turn swaps the
\* width and the height of the image.
Rotated(img) == [img EXCEPT !.width = img.height, !.height = img.width]

\* switch layout { ... }
ForceLayout(w) ==
    /\ At(w, "layout")
    /\ LET fr == frame[w]
           width  == fr.mwm[1].width
           height == fr.mwm[1].height
       IN  IF NeedsRotate(fr.layout[1], width, height)
           THEN \/ Store(w, Goto([Call(fr, "RotateImage") EXCEPT
                                     !.mwm = Some(Rotated(fr.mwm[1]))], "getBlob"))
                \/ Store(w, Failed(Call(fr, "RotateImage"), "RotateImage",
                                   "failed to rotate image"))
           ELSE Store(w, Goto(fr, "getBlob"))

\* out, err := mwm.GetImageBlob()
GetImageBlob(w) ==
    /\ At(w, "getBlob")
    /\ LET fr == Call(frame[w], "GetImageBlob")
       IN  \/ Store(w, Goto([fr EXCEPT !.out = fr.mwm], "zipCreate"))
           \/ Store(w, Failed(fr, "GetImageBlob", "failed to set output format"))

\* f, err := zipWriter.Create(fmt.Sprintf("%04d.%s", page, formatExtensionMap[format]))
ZipCreate(w) ==
    /\ At(w, "zipCreate")
    /\ LET fr   == Call(frame[w], "Create")
           name == SprintfEntryName(fr.page, formatExtensionMap[fr.format[1]])
       IN  \/ Store(w, Goto([fr EXCEPT !.zip.entries =
                                Append(@, [name |-> name, data |-> None])],
                            "zipWrite"))
           \/ Store(w, Failed(fr, "Create", "failed to create new Zip archive entry"))

\* _, err = f.Write(out); then the loop's post statement page++
ZipWrite(w) ==
    /\ At(w, "zipWrite")
    /\ LET fr == Call(frame[w], "Write")
           n  == Len(fr.zip.entries)
       IN  \/ Store(w, Goto([fr EXCEPT !.zip.entries[n].data = fr.out,
                                       !.page = @ + 1],
                            "nextImage"))
           \/ Store(w, Failed(fr, "Write", "failed to write image into Zip archive"))

\* Mutant: the archive is sent without being closed.
ZipCloseSkipped(w) ==
    /\ At(w, "zipClose")
    /\ Store(w, Goto(frame[w], "respond"))

\* err = zipWriter.Close()
ZipClose(w) ==
    /\ At(w, "zipClose")
    /\ LET fr == [Call(frame[w], "Close") EXCEPT !.zip.closes = @ + 1]
       IN  \/ Store(w, Goto([fr EXCEPT !.zip.open = FALSE], "respond"))
           \/ Store(w, Failed(fr, "Close", "failed to close Zip archive"))

\* render.Status(r, http.StatusOK); render.Data(w, r, buf.Bytes())
Respond(w) ==
    /\ At(w, "respond")
    /\ LET fr == frame[w]
       IN  Store(w, Goto([fr EXCEPT !.resp =
                             Append(@, [status |-> 200, kind |-> "data", error |-> "",
                                        entries |-> fr.zip.entries])],
                         "return"))

\* mw.Destroy, mwi.Destroy, mwm.Destroy
DestroyOf(kind) ==
    CASE kind = "mw"  -> "mw.Destroy"
      [] kind = "mwi" -> "mwi.Destroy"
      [] kind = "mwm" -> "mwm.Destroy"

\* The deferred Destroy calls, last registered first.
RECURSIVE RunDefers(_)
RunDefers(fr) ==
    IF fr.defers = <<>> THEN fr
    ELSE LET n == Len(fr.defers)
             d == fr.defers[n]
             popped == [fr EXCEPT !.defers = SubSeq(@, 1, n - 1),
                                  !.calls = Append(@, [op |-> DestroyOf(d.kind),
                                                       page |-> d.page])]
         IN  IF d.kind = "mw"
             THEN RunDefers([popped EXCEPT !.mw = "destroyed"])
             ELSE RunDefers([popped EXCEPT !.live = SelectSeq(@, LAMBDA h : h # d)])

\* The handler returns: its deferred calls run.
Return(w) ==
    /\ At(w, "return")
    /\ Store(w, Goto(RunDefers(frame[w]), "done"))

\* The goroutine of the request ends; the connection is idle again.
Finish(w) ==
    /\ At(w, "done")
    /\ Store(w, IdleFrame)

Next ==
    \/ Initialize
    \/ StartServer
    \/ ListenOK
    \/ ListenFail
    \/ ListenClosed
    \/ Signal
    \/ ShutdownDone
    \/ ShutdownTimeout
    \/ \E w \in Workers :
         \/ Accept(w)
         \/ ParseDensity(w)
         \/ ParseQuality(w)
         \/ ParseFormat(w)
         \/ ParseLayout(w)
         \/ ReadBody(w)
         \/ NewMagickWand(w)
         \/ SetResolution(w)
         \/ ReadImageBlob(w)
         \/ ZipSetup(w)
         \/ NextImage(w)
         \/ GetImage(w)
         \/ MergeImageLayers(w)
         \/ SetImageCompressionQuality(w)
         \/ SetImageFormat(w)
         \/ ForceLayout(w)
         \/ GetImageBlob(w)
         \/ ZipCreate(w)
         \/ ZipWrite(w)
         \/ ZipClose(w)
         \/ Respond(w)
         \/ Return(w)
         \/ Finish(w)

Spec == Init /\ [][Next]_vars


(***************************************************************************)
(* Vocabulary of the properties                                            *)
(***************************************************************************)
\* The handler has written its response and is returning or has returned.
Answered(w) == frame[w].pc \in {"return", "done"}

\* The only response of an answered request.
Response(w) == frame[w].resp[1]

LowerChar(c) ==
    IF \E i \in 1..Len(UpperChars) : UpperChars[i] = c
    THEN LowerChars[CHOOSE i \in 1..Len(UpperChars) : UpperChars[i] = c]
    ELSE c

\* Equality of two strings up to the case of their letters.
EqualFold(s, t) ==
    /\ Len(s) = Len(t)
    /\ \A i \in 1..Len(s) : LowerChar(s[i]) = LowerChar(t[i])

FormatNames == {JPEG, PNG, TIFF}

LayoutNames == {layoutTypeLandscape, layoutTypePortrait, layoutTypeKeep}

\* The extension the documentation gives each format.
CanonicalExtension(f) ==
    CASE f = JPEG -> <<"j","p","g">>
      [] f = PNG  -> <<"p","n","g">>
      [] f = TIFF -> <<"t","i","f","f">>

\* The four decimal digits of i, then "." and the extension (i < 10000).
FourDigitName(i, ext) ==
    << DigitChars[((i \div 1000) % 10) + 1], DigitChars[((i \div 100) % 10) + 1],
       DigitChars[((i \div 10) % 10) + 1], DigitChars[(i % 10) + 1], "." >> \o ext

InvalidDensity(q) == q.density # <<>> /\ ~ParseFloat(q.density).ok

InvalidQuality(q) == q.quality # <<>> /\ ~ParseUint(q.quality).ok

InvalidFormat(q) ==
    q.format # <<>> /\ ~\E f \in FormatNames : EqualFold(q.format, f)

InvalidLayout(q) ==
    q.layout # <<>> /\ ~\E l \in LayoutNames : EqualFold(q.layout, l)

\* What the documentation says of a query: whether one of its keys is
\* invalid and, for each key, the value it stands for (the default when the
\* key is absent).  Computed once for the queries of the model.
Reading(q) ==
    [invalid |-> InvalidDensity(q) \/ InvalidQuality(q)
                    \/ InvalidFormat(q) \/ InvalidLayout(q),
     density |-> IF q.density = <<>>
                 THEN [kind |-> "num", neg |-> FALSE, mant |-> 300, dec |-> 0]
                 ELSE ParseFloat(q.density).val,
     quality |-> IF q.quality = <<>> THEN 85 ELSE ParseUint(q.quality).val,
     format  |-> IF q.format = <<>> \/ InvalidFormat(q) THEN JPEG
                 ELSE CHOOSE f \in FormatNames : EqualFold(q.format, f),
     layout  |-> IF q.layout = <<>> \/ InvalidLayout(q) THEN layoutTypeKeep
                 ELSE CHOOSE l \in LayoutNames : EqualFold(q.layout, l)]

Readings == [q \in {r.query : r \in Requests} |-> Reading(q)]

InvalidQuery(q) == Readings[q].invalid

\* Same page up to a quarter turn.
SamePage(blob, dim) ==
    \/ blob.width = dim[1] /\ blob.height = dim[2]
    \/ blob.width = dim[2] /\ blob.height = dim[1]

(***************************************************************************)
(* C1                                                                      *)
(***************************************************************************)
\* C1: every 200 response to a request whose body decodes into N pages holds
\* an archive of exactly N entries; entry i (from 0, in page order) is
\* named by the four-digit zero-padded i, a dot and the canonical extension
\* of the configured format, and holds page i.
C1_ArchiveStructure ==
    \A w \in Workers :
        (Answered(w) /\ Response(w).status = 200) =>
            LET fr == frame[w]
                es == Response(w).entries
            IN  /\ Len(fr.images) = Len(fr.doc)
                /\ Len(es) = Len(fr.doc)
                /\ \A i \in 1..Len(es) :
                     /\ es[i].name =
                            FourDigitName(i - 1, CanonicalExtension(fr.format[1]))
                     /\ es[i].data # None
                     /\ SamePage(es[i].data[1], fr.doc[i])

C1_Witness ==
    \E w \in Workers :
        /\ Answered(w) /\ Response(w).status = 200
        /\ frame[w].doc = << <<1, 2>>, <<2, 1>> >>
        /\ frame[w].format = Some(TIFF)
        /\ Response(w).entries[2].name = <<"0","0","0","1",".","t","i","f","f">>


(***************************************************************************)
(* C2                                                                      *)
(***************************************************************************)
\* C2: a request with an invalid density, quality, format or layout never
\* reaches the engine: no wand is created, no resolution set, no input
\* decoded, no engine or archive call made, and its only answer is a 400;
\* format=bogus is answered 400 {"error": "invalid output format"}.
C2_RejectedBeforeEngine ==
    \A w \in Workers :
        LET fr == frame[w]
        IN  InvalidQuery(fr.query) =>
                /\ fr.mw = "nil" /\ fr.resolution = None /\ fr.images = <<>>
                /\ fr.calls = <<>>
                /\ fr.pc \in {"parseDensity", "parseQuality", "parseFormat",
                              "parseLayout", "return", "done"}
                /\ Answered(w) =>
                     /\ Len(fr.resp) = 1 /\ Response(w).status = 400
                     /\ (fr.query = Query(<<>>, <<>>, <<"b","o","g","u","s">>, <<>>)
                            => Response(w).error = "invalid output format")

C2_Witness ==
    \E w \in Workers :
        /\ Answered(w)
        /\ frame[w].query = Query(<<>>, <<>>, <<"b","o","g","u","s">>, <<>>)
        /\ Response(w) = [status |-> 400, kind |-> "json",
                          error |-> "invalid output format", entries |-> <<>>]
        /\ frame[w].calls = <<>>

(***************************************************************************)
(* C3                                                                      *)
(***************************************************************************)
\* The value a key of the query resolves to: its default when absent.
ExpectedDensity(q) == Readings[q].density

ExpectedQuality(q) == Readings[q].quality

ExpectedFormat(q) == Readings[q].format

ExpectedLayout(q) == Readings[q].layout

\* C3: once the four keys are resolved, each absent key has its default
\* (300.0, 85, JPEG, KEEP) and each present key its parsed value,
\* independently of the others; these are the values the pipeline hands to
\* the engine (resolution, quality and format of every serialized page).
C3_DefaultsAndParsedValues ==
    \A w \in Workers :
        LET fr == frame[w]
            q  == fr.query
        IN  /\ fr.layout # None =>
                 /\ fr.density = Some(ExpectedDensity(q))
                 /\ fr.quality = Some(ExpectedQuality(q))
                 /\ fr.format = Some(ExpectedFormat(q))
                 /\ fr.layout = Some(ExpectedLayout(q))
            /\ fr.resolution # None => fr.resolution = Some(ExpectedDensity(q))
            /\ fr.out # None =>
                 /\ fr.out[1].quality = Some(ExpectedQuality(q))
                 /\ fr.out[1].format = Some(ExpectedFormat(q))

C3_Witness ==
    \E w \in Workers :
        /\ frame[w].query = Query(<<"1",".","5","0">>, <<>>, <<"P","N","G">>, <<>>)
        /\ frame[w].resolution = Some([kind |-> "num", neg |-> FALSE, mant |-> 15, dec |-> 1])
        /\ frame[w].out # None
        /\ frame[w].out[1].quality = Some(85)
        /\ frame[w].out[1].format = Some(PNG)
        /\ frame[w].layout = Some(layoutTypeKeep)

(***************************************************************************)
(* C4                                                                      *)
(***************************************************************************)
\* The format check has been made: density and quality passed, and the
\* handler is beyond the check.
FormatDecided(w) ==
    /\ frame[w].quality # None
    /\ frame[w].pc # "parseFormat"

\* C4: whenever the format check is made on a non-empty format, a value
\* equal to "jpeg", "png" or "tiff" up to case is accepted and every archive
\* entry of the request ends in jpg, png or tiff respectively; any other
\* value is answered 400 {"error": "invalid output format"}.
C4_FormatResolution ==
    \A w \in Workers :
        LET fr == frame[w]
            v  == fr.query.format
        IN  (FormatDecided(w) /\ v # <<>>) =>
                IF ~InvalidFormat(fr.query)
                THEN LET f   == ExpectedFormat(fr.query)
                         ext == CanonicalExtension(f)
                     IN  /\ fr.format = Some(f)
                         /\ \A i \in 1..Len(fr.resp) :
                              fr.resp[i].error # "invalid output format"
                         /\ \A i \in 1..Len(fr.zip.entries) :
                              LET n == fr.zip.entries[i].name
                              IN  SubSeq(n, Len(n) - Len(ext), Len(n)) = <<".">> \o ext
                ELSE /\ Answered(w)
                     /\ fr.resp = << [status |-> 400, kind |-> "json",
                                      error |-> "invalid output format",
                                      entries |-> <<>>] >>

C4_Witness ==
    \E w \in Workers :
        /\ frame[w].query.format = <<"T","i","f","f">>
        /\ Answered(w) /\ Response(w).status = 200
        /\ Response(w).entries[1].name = <<"0","0","0","0",".","t","i","f","f">>

(***************************************************************************)
(* C5                                                                      *)
(***************************************************************************)
EngineAndArchiveCalls ==
    {"ReadAll", "SetResolution", "ReadImageBlob", "SetImageCompressionQuality",
     "SetImageFormat", "RotateImage", "GetImageBlob", "Create", "Write", "Close"}

\* C5: a handler that is returning has written exactly one response, and
\* none before; the status is 400 exactly when a parameter is invalid, 500
\* exactly when the body read or an engine or archive call failed, and 200
\* exactly when nothing failed; a 400 or 500 body is a JSON object with one
\* non-empty "error" message and no archive.
C5_StatusOfFailures ==
    \A w \in Workers :
        LET fr == frame[w]
        IN  IF Answered(w)
            THEN /\ Len(fr.resp) = 1
                 /\ fr.fault \in EngineAndArchiveCalls \cup {"none"}
                 /\ Response(w).status = 400 <=> InvalidQuery(fr.query)
                 /\ Response(w).status = 500 <=> fr.fault # "none"
                 /\ Response(w).status = 200 <=>
                        (fr.fault = "none" /\ ~InvalidQuery(fr.query))
                 /\ Response(w).status \in {200, 400, 500}
                 /\ Response(w).status # 200 =>
                        /\ Response(w).kind = "json"
                        /\ Response(w).error # ""
                        /\ Response(w).entries = <<>>
                 /\ Response(w).status = 200 => Response(w).kind = "data"
            ELSE fr.resp = <<>>

C5_Witness ==
    \E w \in Workers :
        /\ Answered(w)
        /\ frame[w].fault = "Close"
        /\ Response(w) = [status |-> 500, kind |-> "json",
                          error |-> "failed to close Zip archive", entries |-> <<>>]


(***************************************************************************)
(* C6                                                                      *)
(***************************************************************************)
PageCalls ==
    {"SetImageCompressionQuality", "SetImageFormat", "RotateImage",
     "GetImageBlob", "Create", "Write"}

\* The engine and archive calls of the handler, without the deferred Destroys.
WorkCalls(w) ==
    SelectSeq(frame[w].calls,
              LAMBDA c : c.op \notin {"mw.Destroy", "mwi.Destroy", "mwm.Destroy"})

\* C6: when a call fails on page k, the handler answers at once with a 500
\* JSON error that carries no archive entry, the failed call is the last one
\* made and was made once on that page, no later page is touched, and the
\* archive writer is not closed.
C6_AbortOnPageFailure ==
    \A w \in Workers :
        LET fr == frame[w]
            cs == WorkCalls(w)
            k  == fr.page
        IN  (Answered(w) /\ fr.fault \in PageCalls) =>
                /\ fr.resp = << [status |-> 500, kind |-> "json",
                                 error |-> Response(w).error, entries |-> <<>>] >>
                /\ cs[Len(cs)] = [op |-> fr.fault, page |-> k]
                /\ Cardinality({i \in 1..Len(cs) : cs[i] = [op |-> fr.fault, page |-> k]}) = 1
                /\ \A i \in 1..Len(cs) : cs[i].page <= k
                /\ fr.iter = k + 1
                /\ Len(fr.zip.entries) \in {k, k + 1}
                /\ fr.zip.closes = 0

C6_Witness ==
    \E w \in Workers :
        /\ Answered(w)
        /\ frame[w].fault = "GetImageBlob"
        /\ frame[w].page = 1
        /\ Len(frame[w].zip.entries) = 1
        /\ frame[w].zip.entries[1].data # None
        /\ Response(w).entries = <<>>

(***************************************************************************)
(* C7                                                                      *)
(***************************************************************************)
\* C7: every page written to the archive is, under PORTRAIT, at least as
\* high as wide; under LANDSCAPE, at least as wide as high; under KEEP, of
\* the width and height of the source page.
C7_LayoutOfSerializedPages ==
    \A w \in Workers :
        LET fr == frame[w]
        IN  \A i \in 1..Len(fr.zip.entries) :
                fr.zip.entries[i].data # None =>
                    LET o   == fr.zip.entries[i].data[1]
                        src == fr.doc[i]
                        l   == ExpectedLayout(fr.query)
                    IN  /\ l = layoutTypePortrait => o.height >= o.width
                        /\ l = layoutTypeLandscape => o.width >= o.height
                        /\ l = layoutTypeKeep =>
                              (o.width = src[1] /\ o.height = src[2])
                        /\ SamePage(o, src)

C7_Witness ==
    \E w \in Workers :
        /\ frame[w].layout = Some(layoutTypePortrait)
        /\ Len(frame[w].zip.entries) >= 1
        /\ frame[w].doc[1] = <<2, 1>>
        /\ frame[w].zip.entries[1].data # None
        /\ frame[w].zip.entries[1].data[1].width = 1
        /\ frame[w].zip.entries[1].data[1].height = 2

(***************************************************************************)
(* C8                                                                      *)
(***************************************************************************)
\* The layout switch has been executed on the current page.
LayoutDone(w) ==
    \/ frame[w].pc = "getBlob"
    \/ frame[w].pc = "return" /\ frame[w].fault = "RotateImage"

\* RotateImage was called on the current page.
RotateCalled(w) ==
    \E i \in 1..Len(frame[w].calls) :
        frame[w].calls[i] = [op |-> "RotateImage", page |-> frame[w].page]

\* The source page the handler is working on.
CurrentPage(w) == frame[w].images[frame[w].iter]

\* C8 as stated: a page is rotated exactly when height >= width under
\* LANDSCAPE and exactly when width >= height under PORTRAIT, square pages
\* included.
C8_RotatesSquareAndOblong ==
    \A w \in Workers :
        LayoutDone(w) =>
            LET width  == CurrentPage(w)[1]
                height == CurrentPage(w)[2]
                l      == frame[w].layout[1]
            IN  RotateCalled(w) <=>
                    \/ l = layoutTypeLandscape /\ height >= width
                    \/ l = layoutTypePortrait /\ width >= height

\* C8 amended: a page is rotated exactly when height > width under LANDSCAPE
\* and exactly when width > height under PORTRAIT; a square page is rotated
\* under neither, and no page is rotated under KEEP.
C8_RotatesOblongOnly ==
    \A w \in Workers :
        LayoutDone(w) =>
            LET width  == CurrentPage(w)[1]
                height == CurrentPage(w)[2]
                l      == frame[w].layout[1]
            IN  /\ RotateCalled(w) <=>
                       \/ l = layoutTypeLandscape /\ height > width
                       \/ l = layoutTypePortrait /\ width > height
                /\ width = height => ~RotateCalled(w)

C8_Witness ==
    \E w \in Workers :
        /\ frame[w].pc = "getBlob"
        /\ CurrentPage(w) = <<2, 2>>
        /\ frame[w].layout = Some(layoutTypeLandscape)
        /\ ~RotateCalled(w)


(***************************************************************************)
(* C9                                                                      *)
(***************************************************************************)
\* What a request shows of itself: status and entry names of each response.
Outcome(w) ==
    [i \in 1..Len(frame[w].resp) |->
        [status |-> frame[w].resp[i].status,
         names  |-> [j \in 1..Len(frame[w].resp[i].entries) |->
                        frame[w].resp[i].entries[j].name]]]

\* The outcome of a request served alone, given the call that failed in it.
SoloOutcome(q, doc, fault) ==
    IF InvalidQuery(q) THEN << [status |-> 400, names |-> <<>>] >>
    ELSE IF fault # "none" THEN << [status |-> 500, names |-> <<>>] >>
    ELSE << [status |-> 200,
             names  |-> [j \in 1..Len(doc) |->
                            FourDigitName(j - 1, CanonicalExtension(ExpectedFormat(q)))]] >>

\* Two handlers never change in the same step.
OwnFrameOnly ==
    \A w \in Workers :
        frame'[w] # frame[w] => \A o \in Workers \ {w} : frame'[o] = frame[o]

SameOutcomeAsAlone ==
    /\ \A w \in Workers :
         Answered(w) =>
            Outcome(w) = SoloOutcome(frame[w].query, frame[w].doc, frame[w].fault)
    /\ \A w1, w2 \in Workers :
         ( /\ Answered(w1) /\ Answered(w2)
           /\ frame[w1].query = frame[w2].query
           /\ frame[w1].doc = frame[w2].doc
           /\ frame[w1].fault = frame[w2].fault )
         => Outcome(w1) = Outcome(w2)

\* C9: whatever the interleaving of the handlers, a step of one handler
\* leaves the locals of every other handler (wands, archive, configuration)
\* as they were, and the outcome of a request (status, number and names of
\* the archive entries) is the outcome of that request served alone; two
\* requests with the same query and body, in which the same calls succeed,
\* have the same outcome.
C9_RequestsAreIsolated == []SameOutcomeAsAlone /\ [][OwnFrameOnly]_vars

C9_Witness ==
    \E w1, w2 \in Workers :
        /\ w1 # w2
        /\ frame[w1].pc = "return" /\ frame[w2].pc = "return"
        /\ frame[w1].query.format = <<"P","N","G">>
        /\ frame[w2].query = frame[w1].query
        /\ Outcome(w1) = << [status |-> 200,
                             names |-> << <<"0","0","0","0",".","p","n","g">> >>] >>
        /\ Outcome(w2) = Outcome(w1)

(***************************************************************************)
(* C10                                                                     *)
(***************************************************************************)
\* C10: the sub-handles of a page (the extracted page and its flattened
\* copy) are released when the iteration of that page ends, so the live
\* sub-handles are at most the two of the page being processed.
C10_SubHandlesReleasedPerPage ==
    \A w \in Workers :
        /\ \A i \in 1..Len(frame[w].live) : frame[w].live[i].page >= frame[w].page
        /\ Len(frame[w].live) <= 2


(***************************************************************************)
(* C11                                                                     *)
(***************************************************************************)
\* The number of calls of an operation the handler has made.
CallCount(w, op) ==
    Cardinality({i \in 1..Len(frame[w].calls) : frame[w].calls[i].op = op})

\* C11: a handler that has acquired the document handle holds it live, with
\* no Destroy made, until it returns; once it has returned, on whatever
\* path, the handle is destroyed, mw.Destroy was called exactly once and is
\* the last call the handler made; a handler that has acquired none calls no
\* Destroy.
C11_DocumentHandleReleasedOnce ==
    \A w \in Workers :
        LET fr == frame[w]
        IN  /\ CallCount(w, "mw.Destroy") <= 1
            /\ CallCount(w, "NewMagickWand") = 0 =>
                 (fr.mw = "nil" /\ CallCount(w, "mw.Destroy") = 0)
            /\ (CallCount(w, "NewMagickWand") = 1 /\ fr.pc # "done") =>
                 (fr.mw = "live" /\ CallCount(w, "mw.Destroy") = 0)
            /\ (CallCount(w, "NewMagickWand") = 1 /\ fr.pc = "done") =>
                 /\ fr.mw = "destroyed"
                 /\ CallCount(w, "mw.Destroy") = 1
                 /\ fr.calls[Len(fr.calls)].op = "mw.Destroy"
                 /\ fr.defers = <<>>

C11_Witness ==
    \E w \in Workers :
        /\ frame[w].pc = "done"
        /\ frame[w].fault = "Write"
        /\ frame[w].page = 1
        /\ frame[w].mw = "destroyed"
        /\ CallCount(w, "mw.Destroy") = 1

(***************************************************************************)
(* C12                                                                     *)
(***************************************************************************)
\* C12: the archive writer is closed at most once, and only when every page
\* has its entry written; the Close is the last archive or engine call of
\* the handler, so no entry is created or written after it; a 200 response
\* is sent only after one successful Close and carries the entries of the
\* closed archive; a failed Close is answered with a 500 JSON error.
C12_ArchiveClosedOnce ==
    \A w \in Workers :
        LET fr == frame[w]
            cs == WorkCalls(w)
        IN  /\ fr.zip.closes <= 1
            /\ CallCount(w, "Close") = fr.zip.closes
            /\ fr.zip.closes = 1 =>
                 /\ cs[Len(cs)].op = "Close"
                 /\ fr.iter = Len(fr.images)
                 /\ Len(fr.zip.entries) = Len(fr.images)
                 /\ \A i \in 1..Len(fr.zip.entries) : fr.zip.entries[i].data # None
            /\ \A i \in 1..Len(fr.resp) :
                 fr.resp[i].status = 200 =>
                    /\ fr.zip.closes = 1 /\ ~fr.zip.open /\ fr.fault = "none"
                    /\ fr.resp[i].entries = fr.zip.entries
            /\ (Answered(w) /\ fr.fault = "Close") =>
                 fr.resp = << [status |-> 500, kind |-> "json",
                               error |-> "failed to close Zip archive",
                               entries |-> <<>>] >>

C12_Witness ==
    \E w \in Workers :
        /\ Answered(w) /\ Response(w).status = 200
        /\ Len(Response(w).entries) = 2
        /\ frame[w].zip.closes = 1
        /\ WorkCalls(w)[Len(WorkCalls(w))] = [op |-> "Close", page |-> 2]

(***************************************************************************)
(* C13                                                                     *)
(***************************************************************************)
\* C13: the engine runtime is initialized exactly once before any request is
\* served, and whenever the process has stopped, however it stopped, the
\* runtime has been terminated exactly once.
C13_InitializedAndTerminatedOnce ==
    /\ imagick.inits <= 1 /\ imagick.terms <= 1
    /\ (\E w \in Workers : ~Idle(w)) => imagick.inits = 1
    /\ exit # "running" => (imagick.inits = 1 /\ imagick.terms = 1)

(***************************************************************************)
(* C14                                                                     *)
(***************************************************************************)
\* C14: while a handler runs, the engine runtime is initialized and not
\* terminated; the runtime is terminated only by runMain returning after
\* srv.Shutdown, with no handler running; a process that exits with handlers
\* still running exits with status 1 and has not terminated the runtime.
C14_NoTerminateUnderRequests ==
    /\ (\E w \in Workers : ~Idle(w)) =>
          /\ imagick.state = "init" /\ imagick.terms = 0
          /\ exit # "exit0"
    /\ imagick.terms > 0 =>
          /\ mainpc = "returned" /\ exit = "exit0"
          /\ \A w \in Workers : Idle(w)
    /\ mainpc = "exited" =>
          /\ exit = "exit1"
          /\ imagick.terms = 0

C14_Witness ==
    /\ exit = "exit1"
    /\ mainpc = "exited"
    /\ imagick.state = "init"
    /\ \E w \in Workers : frame[w].mw = "live" /\ frame[w].pc = "getBlob"

(***************************************************************************)
(* C15                                                                     *)
(***************************************************************************)
\* The keys the URL holds with an empty value.
EmptyKeys(w) == {k \in frame[w].present : frame[w].query[k] = <<>>}

DefaultOf ==
    [density |-> Some([kind |-> "num", neg |-> FALSE, mant |-> 300, dec |-> 0]),
     quality |-> Some(85),
     format  |-> Some(JPEG),
     layout  |-> Some(layoutTypeKeep)]

InvalidMessageOf ==
    [density |-> "invalid density",
     quality |-> "invalid compression quality",
     format  |-> "invalid output format",
     layout  |-> "invalid output layout"]

\* C15: a key the URL holds with an empty value is never rejected as
\* invalid, and once the handler has resolved it the key has its default
\* (300.0, 85, JPEG, KEEP), whatever the other keys are; the request is
\* answered as the same request without that key is.
C15_EmptyValueIsAbsent ==
    \A w \in Workers :
        \A k \in EmptyKeys(w) :
            LET fr == frame[w]
            IN  /\ \A i \in 1..Len(fr.resp) : fr.resp[i].error # InvalidMessageOf[k]
                /\ fr.layout # None => fr[k] = DefaultOf[k]
                /\ Answered(w) =>
                     Outcome(w) = SoloOutcome(fr.query, fr.doc, fr.fault)

C15_Witness ==
    \E w \in Workers :
        /\ frame[w].present = Keys
        /\ frame[w].query = Query(<<"7","2">>, <<>>, <<"P","N","G">>, <<>>)
        /\ Answered(w) /\ Response(w).status = 200
        /\ frame[w].quality = Some(85)
        /\ frame[w].layout = Some(layoutTypeKeep)
        /\ frame[w].density = Some([kind |-> "num", neg |-> FALSE, mant |-> 72, dec |-> 0])

=============================================================================
